---- MODULE Spec2Model ----
(***************************************************************************)
(* Root-confined file operations of src-tauri/src/lib.rs, modelled over a  *)
(* POSIX file tree with directories, regular files and symbolic links.     *)
(*                                                                         *)
(* A std::path::Path is modelled by the sequence of its components (the    *)
(* empty sequence is "/"); the strings a command receives are TLA+ strings *)
(* that are split into components the way Path::components does.          *)
(***************************************************************************)
EXTENDS Integers, Sequences, FiniteSets, TLC

VARIABLES
    fs,       \* the file tree: resolved path -> node
    pre,      \* the file tree the last request started from
    last,     \* the last request and its result
    listing,  \* the entries the last list_files returned
    calls,    \* requests served so far
    walker,   \* a list_files call followed step by step: its position, its
              \* argument and its locals root_canon, stack and result
    req       \* the requests in flight that run side by side

vars == <<fs, pre, last, listing, calls, walker, req>>

(* ----------------------------- bounds ---------------------------------- *)

\* symbolic links one path resolution may follow before ELOOP (Linux: 40)
MaxSymlinks == 1

\* requests served in one behaviour
MaxCalls == 2

(* --------------------------- strings ----------------------------------- *)

\* byte value of the characters that occur in the model's names
Byte(c) ==
    CASE c = " " -> 32
      [] c = "-" -> 45
      [] c = "." -> 46
      [] c = "/" -> 47
      [] c = "a" -> 97
      [] c = "b" -> 98
      [] c = "c" -> 99
      [] c = "e" -> 101
      [] c = "f" -> 102
      [] c = "i" -> 105
      [] c = "l" -> 108
      [] c = "n" -> 110
      [] c = "o" -> 111
      [] c = "p" -> 112
      [] c = "q" -> 113
      [] c = "r" -> 114
      [] c = "t" -> 116
      [] c = "u" -> 117
      [] c = "v" -> 118
      [] OTHER -> 255

\* String::cmp: byte-wise lexicographic order
RECURSIVE StrLess(_, _)
StrLess(a, b) ==
    IF b = "" THEN FALSE
    ELSE IF a = "" THEN TRUE
    ELSE IF Byte(Head(a)) # Byte(Head(b)) THEN Byte(Head(a)) < Byte(Head(b))
    ELSE StrLess(Tail(a), Tail(b))

\* str::trim_start_matches('/')
RECURSIVE trim_start_matches(_)
trim_start_matches(s) ==
    IF s # "" /\ Head(s) = "/" THEN trim_start_matches(Tail(s)) ELSE s

RECURSIVE TrimStart(_)
TrimStart(s) == IF s # "" /\ Head(s) = " " THEN TrimStart(Tail(s)) ELSE s

RECURSIVE TrimEnd(_)
TrimEnd(s) ==
    IF s # "" /\ SubSeq(s, Len(s), Len(s)) = " "
    THEN TrimEnd(SubSeq(s, 1, Len(s) - 1)) ELSE s

\* str::trim
trim(s) == TrimEnd(TrimStart(s))

(* ---------------------------- paths ------------------------------------ *)

\* the segments of s between '/' characters, empty segments included
RECURSIVE SplitAcc(_, _, _)
SplitAcc(s, cur, acc) ==
    IF s = "" THEN Append(acc, cur)
    ELSE IF Head(s) = "/" THEN SplitAcc(Tail(s), "", Append(acc, cur))
    ELSE SplitAcc(Tail(s), cur \o Head(s), acc)

\* Path::components of a string that is joined to an absolute base: empty
\* segments and "." are dropped, ".." is kept
Components(s) == SelectSeq(SplitAcc(s, "", <<>>), LAMBDA c : c # "" /\ c # ".")

\* Path::is_absolute
is_absolute(s) == s # "" /\ Head(s) = "/"

\* PathBuf::from of an absolute string
PathFrom(s) == Components(s)

\* Path::join: an absolute argument replaces the base
join(base, s) == IF is_absolute(s) THEN Components(s) ELSE base \o Components(s)

Front(p) == SubSeq(p, 1, Len(p) - 1)
Last(p) == p[Len(p)]

\* Path::parent: lexical, None for "/"
parent(p) == IF p = <<>> THEN [some |-> FALSE, path |-> <<>>]
             ELSE [some |-> TRUE, path |-> Front(p)]

\* Path::file_name: None for "/" and for a path that ends in ".."
file_name(p) == IF p = <<>> \/ Last(p) = ".." THEN [some |-> FALSE, name |-> ""]
                ELSE [some |-> TRUE, name |-> Last(p)]

\* the text of the components of a path, separated by '/'
RECURSIVE JoinText(_)
JoinText(p) == IF p = <<>> THEN ""
               ELSE IF Len(p) = 1 THEN p[1]
               ELSE p[1] \o "/" \o JoinText(Tail(p))

\* Path::display of an absolute path
display(p) == "/" \o JoinText(p)

\* starts_with as a prefix test on the text of the two paths
starts_with_text(p, base) ==
    /\ Len(display(base)) <= Len(display(p))
    /\ SubSeq(display(p), 1, Len(display(base))) = display(base)

\* Path::starts_with: whole components only
starts_with(p, base) ==
    Len(base) <= Len(p) /\ SubSeq(p, 1, Len(base)) = base

\* Path::strip_prefix(..).unwrap_or(p) followed by display(): the text of the
\* path relative to base, the absolute text when base is no prefix
relative_display(p, base) ==
    IF starts_with(p, base) THEN JoinText(SubSeq(p, Len(base) + 1, Len(p)))
    ELSE display(p)

(* ------------------------- the file tree ------------------------------- *)

Dir == [kind |-> "dir", id |-> 0, size |-> 0, target |-> ""]
File(i, n) == [kind |-> "file", id |-> i, size |-> n, target |-> ""]
Link(t) == [kind |-> "link", id |-> 0, size |-> Len(t), target |-> t]

\* f with path p bound to node n
Put(f, p, n) == [q \in (DOMAIN f) \cup {p} |-> IF q = p THEN n ELSE f[q]]

\* f without path p
Drop(f, p) == [q \in (DOMAIN f) \ {p} |-> f[q]]

Fail(e, at) == [ok |-> FALSE, path |-> at, errno |-> e]
Found(p) == [ok |-> TRUE, path |-> p, errno |-> ""]

\* path resolution of the kernel (realpath): cur is a resolved location,
\* rest the components still to walk; symbolic links are followed, ".." is
\* the parent of the resolved location; a failure reports where it stopped
RECURSIVE Walk(_, _, _, _)
Walk(f, cur, rest, fuel) ==
    IF rest = <<>> THEN Found(cur)
    ELSE IF f[cur].kind # "dir" THEN Fail("ENOTDIR", cur)
    ELSE LET c == Head(rest)
             t == Tail(rest)
             p == Append(cur, c)
         IN IF c = ".." THEN Walk(f, IF cur = <<>> THEN cur ELSE Front(cur), t, fuel)
            ELSE IF p \notin DOMAIN f THEN Fail("ENOENT", cur)
            ELSE IF f[p].kind = "link"
                 THEN IF fuel = 0 THEN Fail("ELOOP", cur)
                      ELSE Walk(f, IF is_absolute(f[p].target) THEN <<>> ELSE cur,
                                Components(f[p].target) \o t, fuel - 1)
            ELSE Walk(f, p, t, fuel)

\* Path::canonicalize
canonicalize(f, p) == Walk(f, <<>>, p, MaxSymlinks)

\* Path::exists, Path::is_dir, Path::is_file: stat, which follows links
KindAt(f, c) == IF c.ok THEN f[c.path].kind ELSE "none"
exists(f, p) == canonicalize(f, p).ok
is_dir(f, p) == KindAt(f, canonicalize(f, p)) = "dir"
\* is_file that holds of every entry that exists and is no link
is_file_or_dir(f, p) == KindAt(f, canonicalize(f, p)) \in {"file", "dir"}

is_file(f, p) == KindAt(f, canonicalize(f, p)) = "file"

(* ------------------------- std::fs calls ------------------------------- *)

SysOk(f) == [ok |-> TRUE, fs |-> f, errno |-> ""]
SysErr(f, e) == [ok |-> FALSE, fs |-> f, errno |-> e]

\* mkdir(2) of the entry `name` in the resolved parent par
MkdirIn(f, par, name) ==
    IF ~par.ok THEN SysErr(f, par.errno)
    ELSE IF f[par.path].kind # "dir" THEN SysErr(f, "ENOTDIR")
    ELSE IF Append(par.path, name) \in DOMAIN f THEN SysErr(f, "EEXIST")
    ELSE SysOk(Put(f, Append(par.path, name), Dir))

\* mkdir(2): the parent is resolved, the last component is not followed;
\* "/" and a resolvable path ending in ".." exist already
mkdir(f, p) ==
    LET Present(c) == IF c.ok THEN SysErr(f, "EEXIST") ELSE SysErr(f, c.errno)
    IN IF p = <<>> THEN SysErr(f, "EEXIST")
       ELSE IF Last(p) = ".." THEN Present(canonicalize(f, p))
       ELSE MkdirIn(f, canonicalize(f, Front(p)), Last(p))

\* fs::create_dir_all: mkdir; on NotFound create the lexical parent first and
\* mkdir again; any other failure is success when the path is a directory
RECURSIVE create_dir_all(_, _)
create_dir_all(f, p) ==
    LET Again(r) ==
            LET Second(m2) ==
                    IF m2.ok THEN m2
                    ELSE IF is_dir(r.fs, p) THEN SysOk(r.fs)
                    ELSE m2
            IN IF ~r.ok THEN r ELSE Second(mkdir(r.fs, p))
        First(m) ==
            IF m.ok THEN m
            ELSE IF m.errno # "ENOENT"
                 THEN IF is_dir(f, p) THEN SysOk(f) ELSE m
            ELSE IF ~parent(p).some THEN SysErr(f, "EIO")
            ELSE Again(create_dir_all(f, parent(p).path))
    IN First(mkdir(f, p))

\* rename that refuses a destination that exists (RENAME_NOREPLACE)
RenameInto_noreplace(f, src, par, name) ==
    IF ~par.ok THEN SysErr(f, par.errno)
    ELSE IF f[par.path].kind # "dir" THEN SysErr(f, "ENOTDIR")
    ELSE IF Append(par.path, name) \in DOMAIN f THEN SysErr(f, "EEXIST")
    ELSE SysOk(Put(Drop(f, src), Append(par.path, name), f[src]))

\* rename(2) of the entry src to the entry `name` of the resolved directory
\* par: an existing file or link there is replaced, a directory is not
RenameInto(f, src, par, name) ==
    IF ~par.ok THEN SysErr(f, par.errno)
    ELSE IF f[par.path].kind # "dir" THEN SysErr(f, "ENOTDIR")
    ELSE IF Append(par.path, name) = src THEN SysOk(f)
    ELSE IF Append(par.path, name) \in DOMAIN f /\ f[Append(par.path, name)].kind = "dir"
         THEN SysErr(f, "EISDIR")
    ELSE SysOk(Put(Drop(f, src), Append(par.path, name), f[src]))

\* rename(2): the parent of dst is resolved, its last component is not
\* followed
rename(f, src, dst) ==
    IF src \notin DOMAIN f THEN SysErr(f, "ENOENT")
    ELSE IF dst = <<>> \/ Last(dst) = ".." THEN SysErr(f, "EBUSY")
    ELSE RenameInto(f, src, canonicalize(f, Front(dst)), Last(dst))

\* remove_file that takes a path that is not there for removed (rm -f)
remove_file_force(f, p) ==
    IF p \notin DOMAIN f THEN SysOk(f)
    ELSE IF f[p].kind = "dir" THEN SysErr(f, "EISDIR")
    ELSE SysOk(Drop(f, p))

\* unlink(2) of a resolved path
remove_file(f, p) ==
    IF p \notin DOMAIN f THEN SysErr(f, "ENOENT")
    ELSE IF f[p].kind = "dir" THEN SysErr(f, "EISDIR")
    ELSE SysOk(Drop(f, p))

(* --------------------------- commands ---------------------------------- *)

Ok(f) == [ok |-> TRUE, fs |-> f, err |-> "", errno |-> ""]
Err(f, msg, e) == [ok |-> FALSE, fs |-> f, err |-> msg, errno |-> e]

Within(p) == [ok |-> TRUE, path |-> p, err |-> "", errno |-> ""]
NotWithin(msg, e) == [ok |-> FALSE, path |-> <<>>, err |-> msg, errno |-> e]

\* canonical_within that tests the candidate as given, not as resolved
canonical_within_lexical(f, root, candidate) ==
    LET Check(r, cand) ==
            IF ~r.ok THEN NotWithin("Failed to canonicalize root", r.errno)
            ELSE IF ~cand.ok THEN NotWithin("Failed to canonicalize path", cand.errno)
            ELSE IF starts_with(candidate, r.path) THEN Within(cand.path)
            ELSE NotWithin("Path escapes selected root", "")
    IN Check(canonicalize(f, root), canonicalize(f, candidate))

canonical_within(f, root, candidate) ==
    LET Check(r, cand) ==
            IF ~r.ok THEN NotWithin("Failed to canonicalize root", r.errno)
            ELSE IF ~cand.ok THEN NotWithin("Failed to canonicalize path", cand.errno)
            ELSE IF starts_with(cand.path, r.path) THEN Within(cand.path)
            ELSE NotWithin("Path escapes selected root", "")
    IN Check(canonicalize(f, root), canonicalize(f, candidate))

rename_file(f, root_s, relative_path, new_name) ==
    LET root == PathFrom(root_s)
        Renamed(mv) == IF ~mv.ok THEN Err(f, "Rename failed", mv.errno) ELSE Ok(mv.fs)
        Checked(abs_path, root_canon) ==
            IF ~abs_path.ok THEN Err(f, abs_path.err, abs_path.errno)
            ELSE IF ~is_file(f, abs_path.path) THEN Err(f, "Target is not a file", "")
            ELSE IF ~parent(abs_path.path).some THEN Err(f, "File has no parent directory", "")
            ELSE IF ~root_canon.ok THEN Err(f, "Invalid root", root_canon.errno)
            ELSE IF ~starts_with(parent(abs_path.path).path, root_canon.path)
                 THEN Err(f, "Destination escapes root", "")
            ELSE Renamed(rename(f, abs_path.path,
                                join(parent(abs_path.path).path, new_name)))
    IN Checked(canonical_within(f, root, join(root, relative_path)),
               canonicalize(f, root))

delete_file(f, root_s, relative_path) ==
    LET root == PathFrom(root_s)
        Removed(rm) == IF ~rm.ok THEN Err(f, "Delete failed", rm.errno) ELSE Ok(rm.fs)
        Checked(abs_path) ==
            IF ~abs_path.ok THEN Err(f, abs_path.err, abs_path.errno)
            ELSE IF is_file(f, abs_path.path) THEN Removed(remove_file(f, abs_path.path))
            ELSE Err(f, "Only files can be deleted with this action", "")
    IN Checked(canonical_within(f, root, join(root, relative_path)))

\* dest_dir_of that joins every to_relative_dir to the root as it is
dest_dir_joined(root, root_canon, to_relative_dir) ==
    join(root, trim(to_relative_dir))

\* the destination directory move_file derives from to_relative_dir
dest_dir_of(root, root_canon, to_relative_dir) ==
    LET Norm(to) ==
            IF to = "" \/ to = "/" \/ to = "."
            THEN root_canon
            ELSE join(root, trim_start_matches(to))
    IN Norm(trim(to_relative_dir))

DestOk(f, p) == [ok |-> TRUE, fs |-> f, path |-> p, err |-> "", errno |-> ""]
DestErr(f, msg, e) == [ok |-> FALSE, fs |-> f, path |-> <<>>, err |-> msg, errno |-> e]

\* dest_canon_of that creates a missing destination whatever create_dir is
dest_canon_created(f, root, dest_dir, create_dir) ==
    LET par == IF parent(dest_dir).some THEN parent(dest_dir).path ELSE root
        Validated(within) ==
            IF within.ok THEN DestOk(f, within.path)
            ELSE DestErr(f, within.err, within.errno)
        Resolved(g, created) ==
            IF ~created.ok
            THEN DestErr(g, "Failed to validate created dir", created.errno)
            ELSE DestOk(g, created.path)
        Created(mk) ==
            IF ~mk.ok THEN DestErr(mk.fs, "Failed to create dir", mk.errno)
            ELSE Resolved(mk.fs, canonicalize(mk.fs, dest_dir))
        ParentChecked(parchk) ==
            IF ~parchk.ok THEN DestErr(f, parchk.err, parchk.errno)
            ELSE Created(create_dir_all(f, dest_dir))
    IN IF exists(f, dest_dir) THEN Validated(canonical_within(f, root, dest_dir))
       ELSE IF exists(f, par) THEN ParentChecked(canonical_within(f, root, par))
       ELSE Created(create_dir_all(f, dest_dir))

\* the value of dest_canon: the destination validated, or created first
\* when it does not exist and create_dir is set
dest_canon_of(f, root, dest_dir, create_dir) ==
    LET par == IF parent(dest_dir).some THEN parent(dest_dir).path ELSE root
        Validated(within) ==
            IF within.ok THEN DestOk(f, within.path)
            ELSE DestErr(f, within.err, within.errno)
        Resolved(g, created) ==
            IF ~created.ok
            THEN DestErr(g, "Failed to validate created dir", created.errno)
            ELSE DestOk(g, created.path)
        Created(mk) ==
            IF ~mk.ok THEN DestErr(mk.fs, "Failed to create dir", mk.errno)
            ELSE Resolved(mk.fs, canonicalize(mk.fs, dest_dir))
        ParentChecked(parchk) ==
            IF ~parchk.ok THEN DestErr(f, parchk.err, parchk.errno)
            ELSE Created(create_dir_all(f, dest_dir))
    IN IF exists(f, dest_dir) THEN Validated(canonical_within(f, root, dest_dir))
       ELSE IF ~create_dir THEN DestErr(f, "Destination directory does not exist", "")
       ELSE IF exists(f, par) THEN ParentChecked(canonical_within(f, root, par))
       ELSE Created(create_dir_all(f, dest_dir))

\* move_file that renames first and validates the destination afterwards
move_file_then_validate(f, root_s, from_relative, to_relative_dir, create_dir) ==
    LET root == PathFrom(root_s)
        Validated(g, within) ==
            IF ~within.ok THEN Err(g, within.err, within.errno) ELSE Ok(g)
        Moved(mv, dest_dir) ==
            IF ~mv.ok THEN Err(f, "Move failed", mv.errno)
            ELSE Validated(mv.fs, canonical_within(mv.fs, root, dest_dir))
        Placed(src_abs, dest_dir) ==
            IF ~exists(f, dest_dir)
            THEN Err(f, "Destination directory does not exist", "")
            ELSE IF ~file_name(src_abs.path).some
                 THEN Err(f, "Source file has no name", "")
            ELSE Moved(rename(f, src_abs.path,
                              Append(dest_dir, file_name(src_abs.path).name)),
                       dest_dir)
        Checked(root_canon, src_abs) ==
            IF ~root_canon.ok THEN Err(f, "Invalid root", root_canon.errno)
            ELSE IF ~src_abs.ok THEN Err(f, src_abs.err, src_abs.errno)
            ELSE IF ~is_file(f, src_abs.path) THEN Err(f, "Source is not a file", "")
            ELSE Placed(src_abs, dest_dir_of(root, root_canon.path, to_relative_dir))
    IN Checked(canonicalize(f, root),
               canonical_within(f, root, join(root, from_relative)))

move_file(f, root_s, from_relative, to_relative_dir, create_dir) ==
    LET root == PathFrom(root_s)
        Moved(g, mv) == IF ~mv.ok THEN Err(g, "Move failed", mv.errno) ELSE Ok(mv.fs)
        Placed(src_abs, dest_canon) ==
            IF ~dest_canon.ok THEN Err(dest_canon.fs, dest_canon.err, dest_canon.errno)
            ELSE IF ~file_name(src_abs.path).some
                 THEN Err(dest_canon.fs, "Source file has no name", "")
            ELSE Moved(dest_canon.fs,
                       rename(dest_canon.fs, src_abs.path,
                              Append(dest_canon.path, file_name(src_abs.path).name)))
        Checked(root_canon, src_abs) ==
            IF ~root_canon.ok THEN Err(f, "Invalid root", root_canon.errno)
            ELSE IF ~src_abs.ok THEN Err(f, src_abs.err, src_abs.errno)
            ELSE IF ~is_file(f, src_abs.path) THEN Err(f, "Source is not a file", "")
            ELSE Placed(src_abs,
                        dest_canon_of(f, root,
                                      dest_dir_of(root, root_canon.path, to_relative_dir),
                                      create_dir))
    IN Checked(canonicalize(f, root),
               canonical_within(f, root, join(root, from_relative)))

\* create_folder that makes the target with one mkdir, which refuses a
\* directory that is already there
create_folder_once(f, root_s, relative_dir) ==
    LET root == PathFrom(root_s)
        target == join(root, relative_dir)
        par == IF parent(target).some THEN parent(target).path ELSE root
        Made(mk) == IF ~mk.ok THEN Err(mk.fs, "Create folder failed", mk.errno)
                    ELSE Ok(mk.fs)
        Checked(chk) ==
            IF ~chk.ok THEN Err(f, chk.err, chk.errno)
            ELSE Made(mkdir(f, target))
    IN Checked(canonical_within(f, root, par))

create_folder(f, root_s, relative_dir) ==
    LET root == PathFrom(root_s)
        target == join(root, relative_dir)
        par == IF parent(target).some THEN parent(target).path ELSE root
        Made(mk) == IF ~mk.ok THEN Err(mk.fs, "Create folder failed", mk.errno)
                    ELSE Ok(mk.fs)
        Checked(chk) ==
            IF ~chk.ok THEN Err(f, chk.err, chk.errno)
            ELSE Made(create_dir_all(f, target))
    IN Checked(canonical_within(f, root, par))

(* --------------------------- list_files -------------------------------- *)

\* the names of a set, smallest byte string first (the set is bound as a
\* value, T, so that it is computed once)
ByName(S) ==
    CHOOSE q \in {[i \in 1..Cardinality(T) |->
                     CHOOSE x \in T : Cardinality({y \in T : StrLess(y, x)}) = i - 1] :
                  T \in {S}} : TRUE

Reverse(s) == [i \in 1..Len(s) |-> s[Len(s) + 1 - i]]

Rotate(s, k) ==
    IF s = <<>> THEN s
    ELSE [i \in 1..Len(s) |-> s[((i - 1 + k) % Len(s)) + 1]]

\* fs::read_dir: the entry names of a directory, in the order ord; the
\* order of a directory stream is not specified
read_dir(f, dir, ord) ==
    LET Arrange(sorted) == Rotate(IF ord.rev THEN Reverse(sorted) ELSE sorted, ord.rot)
        Read(c) ==
            IF ~c.ok THEN [ok |-> FALSE, names |-> <<>>, real |-> <<>>, errno |-> c.errno]
            ELSE IF f[c.path].kind # "dir"
            THEN [ok |-> FALSE, names |-> <<>>, real |-> <<>>, errno |-> "ENOTDIR"]
            ELSE [ok |-> TRUE,
                  names |-> CHOOSE a \in {Arrange(sorted) : sorted \in
                               {ByName({Last(q) : q \in {q \in DOMAIN f :
                                            q # <<>> /\ Front(q) = c.path}})}} : TRUE,
                  real |-> c.path, errno |-> ""]
    IN CHOOSE r \in {Read(c) : c \in {canonicalize(f, dir)}} : TRUE

\* the FileEntry list_files pushes for entry name of directory dir
FileEntry(f, root_canon, dir, real, name) ==
    [path |-> display(Append(dir, name)),
     relative_path |-> relative_display(Append(dir, name), root_canon),
     size |-> f[Append(real, name)].size]

\* the body of the for loop of list_files over the entries rd of directory
\* dir: the entries is_dir holds of, to push, and the FileEntry of each other
\* entry is_file holds of
for_entries(f, root_canon, dir, rd) ==
    LET Visit(kind) ==
            LET at == SelectSeq([i \in 1..Len(rd.names) |-> i], LAMBDA i : kind[i] = "dir")
                ft == SelectSeq([i \in 1..Len(rd.names) |-> i], LAMBDA i : kind[i] = "file")
            IN [push |-> [j \in 1..Len(at) |-> Append(dir, rd.names[at[j]])],
                found |-> [j \in 1..Len(ft) |->
                              FileEntry(f, root_canon, dir, rd.real, rd.names[ft[j]])]]
    IN Visit([i \in 1..Len(rd.names) |->
                 IF is_dir(f, Append(dir, rd.names[i])) THEN "dir"
                 ELSE IF is_file(f, Append(dir, rd.names[i])) THEN "file"
                 ELSE "other"])

\* the while loop of list_files: pop a directory, read it, push its
\* directories and collect its files
RECURSIVE walk_stack(_, _, _, _, _)
walk_stack(f, root_canon, stack, result, ord) ==
    LET Step(dir, rd) ==
            LET Go(v) == walk_stack(f, root_canon, Front(stack) \o v.push,
                                    result \o v.found, ord)
            IN IF ~rd.ok
               THEN [ok |-> FALSE, entries |-> <<>>, err |-> "Failed to read dir",
                     errno |-> rd.errno]
               ELSE Go(for_entries(f, root_canon, dir, rd))
    IN IF stack = <<>> THEN [ok |-> TRUE, entries |-> result, err |-> "", errno |-> ""]
       ELSE Step(Last(stack), read_dir(f, Last(stack), ord))

\* result.sort_by(|a, b| a.relative_path.cmp(&b.relative_path))
sort_by_relative_path(entries) ==
    SortSeq(entries, LAMBDA a, b : StrLess(a.relative_path, b.relative_path))

list_files(f, root_s, ord) ==
    LET Sorted(w) ==
            IF ~w.ok THEN w
            ELSE [ok |-> TRUE, entries |-> sort_by_relative_path(w.entries),
                  err |-> "", errno |-> ""]
        Walked(root_canon) ==
            IF ~root_canon.ok
            THEN [ok |-> FALSE, entries |-> <<>>, err |-> "Invalid root",
                  errno |-> root_canon.errno]
            ELSE Sorted(walk_stack(f, root_canon.path, <<root_canon.path>>, <<>>, ord))
    IN Walked(canonicalize(f, PathFrom(root_s)))

(* ------------------------- the state machine --------------------------- *)

\* the root every request names
Root == "/root"

\* the file tree the requests start from: two files of the listing example,
\* a link to a directory outside the root, a link to a file inside it, a
\* link to the root itself, and a sibling directory whose name extends the
\* root's
InitialTree ==
    LET paths == {<<>>, <<"root">>, <<"root", "a">>, <<"root", "a", "f">>,
                  <<"root", "b">>, <<"root", "lo">>, <<"root", "lf">>,
                  <<"root", "up">>, <<"root-evil">>, <<"root-evil", "p">>}
    IN [q \in paths |->
          CASE q = <<"root", "a", "f">> -> File(1, 10)
            [] q = <<"root", "b">> -> File(2, 0)
            [] q = <<"root-evil", "p">> -> File(3, 5)
            [] q = <<"root", "lo">> -> Link("/root-evil")
            [] q = <<"root", "lf">> -> Link("/root/b")
            [] q = <<"root", "up">> -> Link("/root")
            [] OTHER -> Dir]

\* relative_path and from_relative arguments
RelArgs == {"a/f", "a", "lf", "../root-evil/p", "../../etc"}

\* new_name arguments
NameArgs == {"b", "lf", "../../root-evil/c"}

\* to_relative_dir and relative_dir arguments
DirArgs == {"", ".", "/", "/a", "n", "n/m", "n/../../root-evil/n", "n/../b/m", "lo"}

\* the directory enumeration orders explored
EnumOrders == {[rev |-> FALSE, rot |-> 0], [rev |-> TRUE, rot |-> 1]}

NoCall == [op |-> "none", a1 |-> "", a2 |-> "", flag |-> FALSE,
           ok |-> TRUE, err |-> "", errno |-> ""]

Called(op, a1, a2, flag, r) ==
    [op |-> op, a1 |-> a1, a2 |-> a2, flag |-> flag,
     ok |-> r.ok, err |-> r.err, errno |-> r.errno]

\* no list_files call is being followed
Idle == [pc |-> "idle", root |-> "", root_canon |-> <<>>, stack |-> <<>>,
         result |-> <<>>]

Init ==
    /\ fs = InitialTree
    /\ pre = InitialTree
    /\ last = NoCall
    /\ listing = <<>>
    /\ calls = 0
    /\ walker = Idle
    /\ req = <<>>

RenameFile ==
    /\ calls < MaxCalls
    /\ \E rel \in RelArgs, new_name \in NameArgs :
           \E r \in {rename_file(fs, Root, rel, new_name)} :
              /\ calls' = calls + 1
              /\ fs' = r.fs
              /\ pre' = fs
              /\ last' = Called("rename_file", rel, new_name, FALSE, r)
              /\ UNCHANGED <<listing, walker, req>>

DeleteFile ==
    /\ calls < MaxCalls
    /\ \E rel \in RelArgs :
           \E r \in {delete_file(fs, Root, rel)} :
              /\ calls' = calls + 1
              /\ fs' = r.fs
              /\ pre' = fs
              /\ last' = Called("delete_file", rel, "", FALSE, r)
              /\ UNCHANGED <<listing, walker, req>>

MoveFile ==
    /\ calls < MaxCalls
    /\ \E rel \in RelArgs, to \in DirArgs, create_dir \in BOOLEAN :
           \E r \in {move_file(fs, Root, rel, to, create_dir)} :
              /\ calls' = calls + 1
              /\ fs' = r.fs
              /\ pre' = fs
              /\ last' = Called("move_file", rel, to, create_dir, r)
              /\ UNCHANGED <<listing, walker, req>>

CreateFolder ==
    /\ calls < MaxCalls
    /\ \E dir \in DirArgs :
           \E r \in {create_folder(fs, Root, dir)} :
              /\ calls' = calls + 1
              /\ fs' = r.fs
              /\ pre' = fs
              /\ last' = Called("create_folder", dir, "", FALSE, r)
              /\ UNCHANGED <<listing, walker, req>>

ListFiles ==
    /\ calls < MaxCalls
    /\ \E ord \in EnumOrders :
           \E r \in {list_files(fs, Root, ord)} :
              /\ calls' = calls + 1
              /\ listing' = r.entries
              /\ last' = Called("list_files", "", "", FALSE, r)
              /\ pre' = fs
              /\ UNCHANGED <<fs, walker, req>>

Next == RenameFile \/ DeleteFile \/ MoveFile \/ CreateFolder \/ ListFiles

Spec == Init /\ [][Next]_vars

(* --------------------- list_files, step by step ------------------------ *)

\* a loop pass that leaves a directory without entries on the stack
stack_after_unpopped(stk, v) ==
    IF v.push = <<>> /\ v.found = <<>> THEN stk ELSE Front(stk) \o v.push

\* the stack after one pass of the while loop: stack.pop() has taken the
\* directory on top and stack.push(p) has added the directories found in it
stack_after(stk, v) == Front(stk) \o v.push

\* the entries every tree of the walks has
WalkBase ==
    LET paths == {<<>>, <<"root">>, <<"root", "a">>, <<"root", "a", "f">>,
                  <<"root", "b">>, <<"root-evil">>, <<"root-evil", "p">>}
    IN [q \in paths |->
          CASE q = <<"root", "a", "f">> -> File(1, 10)
            [] q = <<"root", "b">> -> File(2, 0)
            [] q = <<"root-evil", "p">> -> File(3, 5)
            [] OTHER -> Dir]

\* the entries a tree may have besides: a link to the root in the root, a
\* link to the directory it lies in, an empty directory, a link that leads
\* out of the root
WalkExtras ==
    (<<"root", "up">> :> Link("/root")) @@
    (<<"root", "a", "back">> :> Link("/root/a")) @@
    (<<"root", "d">> :> Dir) @@
    (<<"root", "lo">> :> Link("/root-evil"))

WalkTrees ==
    {[q \in DOMAIN WalkBase \cup S |->
         IF q \in S THEN WalkExtras[q] ELSE WalkBase[q]] :
       S \in SUBSET DOMAIN WalkExtras}

\* root arguments: a directory, a link to it that some trees lack, a file
WalkRoots == {"/root", "/root/up", "/root/b"}

Returned(r_ok, msg, e) == [ok |-> r_ok, err |-> msg, errno |-> e]

WalkInit ==
    /\ fs \in WalkTrees
    /\ pre = fs
    /\ last = NoCall
    /\ listing = <<>>
    /\ calls = 0
    /\ walker = [Idle EXCEPT !.pc = "start"]
    /\ req = <<>>

\* root_canon and the initial stack
WalkCanonicalize ==
    /\ walker.pc = "start"
    /\ \E root \in WalkRoots :
           \E c \in {canonicalize(fs, PathFrom(root))} :
              /\ c.ok
              /\ walker' = [pc |-> "loop", root |-> root, root_canon |-> c.path,
                            stack |-> <<c.path>>, result |-> <<>>]
    /\ UNCHANGED <<fs, pre, last, listing, calls, req>>

WalkInvalidRoot ==
    /\ walker.pc = "start"
    /\ \E root \in WalkRoots :
           \E c \in {canonicalize(fs, PathFrom(root))} :
              /\ ~c.ok
              /\ walker' = [walker EXCEPT !.pc = "failed", !.root = root]
              /\ last' = Called("list_files", root, "", FALSE,
                                Returned(FALSE, "Invalid root", c.errno))
    /\ UNCHANGED <<fs, pre, listing, calls, req>>

\* one pass of the while loop over a directory that can be read
WalkPass ==
    /\ walker.pc = "loop" /\ walker.stack # <<>>
    /\ \E ord \in EnumOrders :
           \E rd \in {read_dir(fs, Last(walker.stack), ord)} :
              /\ rd.ok
              /\ \E v \in {for_entries(fs, walker.root_canon, Last(walker.stack), rd)} :
                     walker' = [walker EXCEPT
                                   !.stack = stack_after(walker.stack, v),
                                   !.result = walker.result \o v.found]
    /\ UNCHANGED <<fs, pre, last, listing, calls, req>>

\* fs::read_dir fails and the ? operator returns the error
WalkReadFailed ==
    /\ walker.pc = "loop" /\ walker.stack # <<>>
    /\ \E ord \in EnumOrders :
           \E rd \in {read_dir(fs, Last(walker.stack), ord)} :
              /\ ~rd.ok
              /\ walker' = [walker EXCEPT !.pc = "failed"]
              /\ last' = Called("list_files", walker.root, "", FALSE,
                                Returned(FALSE, "Failed to read dir", rd.errno))
    /\ UNCHANGED <<fs, pre, listing, calls, req>>

\* the stack is empty: sort and return
WalkSort ==
    /\ walker.pc = "loop" /\ walker.stack = <<>>
    /\ listing' = sort_by_relative_path(walker.result)
    /\ walker' = [walker EXCEPT !.pc = "done"]
    /\ last' = Called("list_files", walker.root, "", FALSE, Returned(TRUE, "", ""))
    /\ UNCHANGED <<fs, pre, calls, req>>

WalkNext ==
    WalkCanonicalize \/ WalkInvalidRoot \/ WalkPass \/ WalkReadFailed \/ WalkSort

\* the call is one thread of straight-line code: it keeps taking its next
\* step as long as it has one
SpecWalk == WalkInit /\ [][WalkNext]_vars /\ WF_vars(WalkNext)

(* -------------------- two requests side by side ------------------------ *)

\* the file operation of a request, run at its mutation step: fs::rename
\* for rename_file and move_file, fs::remove_file for delete_file
mutate(f, op, src, dst) ==
    IF op = "delete_file" THEN remove_file(f, src) ELSE rename(f, src, dst)

ChecksOk(src, dst, rc) ==
    [ok |-> TRUE, src |-> src, dst |-> dst, root_canon |-> rc, err |-> "", errno |-> ""]
ChecksErr(msg, e) ==
    [ok |-> FALSE, src |-> <<>>, dst |-> <<>>, root_canon |-> <<>>, err |-> msg, errno |-> e]

\* rename_file up to its fs::rename: the source and the destination it names
rename_checks(f, root_s, relative_path, new_name) ==
    LET root == PathFrom(root_s)
        Checked(abs_path, root_canon) ==
            IF ~abs_path.ok THEN ChecksErr(abs_path.err, abs_path.errno)
            ELSE IF ~is_file(f, abs_path.path) THEN ChecksErr("Target is not a file", "")
            ELSE IF ~parent(abs_path.path).some
                 THEN ChecksErr("File has no parent directory", "")
            ELSE IF ~root_canon.ok THEN ChecksErr("Invalid root", root_canon.errno)
            ELSE IF ~starts_with(parent(abs_path.path).path, root_canon.path)
                 THEN ChecksErr("Destination escapes root", "")
            ELSE ChecksOk(abs_path.path, join(parent(abs_path.path).path, new_name),
                          root_canon.path)
    IN Checked(canonical_within(f, root, join(root, relative_path)),
               canonicalize(f, root))

\* delete_file up to its fs::remove_file
delete_checks(f, root_s, relative_path) ==
    LET root == PathFrom(root_s)
        Checked(abs_path) ==
            IF ~abs_path.ok THEN ChecksErr(abs_path.err, abs_path.errno)
            ELSE IF is_file(f, abs_path.path) THEN ChecksOk(abs_path.path, <<>>, <<>>)
            ELSE ChecksErr("Only files can be deleted with this action", "")
    IN Checked(canonical_within(f, root, join(root, relative_path)))

\* move_file up to the normalization of to_relative_dir
move_checks(f, root_s, from_relative) ==
    LET root == PathFrom(root_s)
        Checked(root_canon, src_abs) ==
            IF ~root_canon.ok THEN ChecksErr("Invalid root", root_canon.errno)
            ELSE IF ~src_abs.ok THEN ChecksErr(src_abs.err, src_abs.errno)
            ELSE IF ~is_file(f, src_abs.path) THEN ChecksErr("Source is not a file", "")
            ELSE ChecksOk(src_abs.path, <<>>, root_canon.path)
    IN Checked(canonicalize(f, root),
               canonical_within(f, root, join(root, from_relative)))

checks_of(f, r) ==
    CASE r.op = "rename_file" -> rename_checks(f, Root, r.a1, r.a2)
      [] r.op = "delete_file" -> delete_checks(f, Root, r.a1)
      [] r.op = "move_file" -> move_checks(f, Root, r.a1)

\* the message of a failed mutation step
FailedMessage(op) ==
    CASE op = "rename_file" -> "Rename failed"
      [] op = "delete_file" -> "Delete failed"
      [] op = "move_file" -> "Move failed"

\* the paths at which trees f and g differ
Diff(f, g) ==
    {q \in DOMAIN f \cup DOMAIN g :
        q \notin DOMAIN f \/ q \notin DOMAIN g \/ f[q] # g[q]}

\* a request before its first step; changed and at are what it has changed
\* in the tree and where its fs::rename has put the file
Request(op, a1, a2, flag) ==
    [op |-> op, a1 |-> a1, a2 |-> a2, flag |-> flag, pc |-> "check",
     src |-> <<>>, dst |-> <<>>, root_canon |-> <<>>,
     ok |-> FALSE, err |-> "", errno |-> "", changed |-> {}, at |-> <<>>]

\* the request returns
Return(r, r_ok, msg, e) ==
    [r EXCEPT !.pc = "done", !.ok = r_ok, !.err = msg, !.errno = e]

\* the relative paths of the requests: two files, one of them also through
\* a link
RaceRels == {"a/f", "b", "lf"}

\* their to_relative_dir arguments
RaceDirArgs == {"", "/a", "n"}

RaceRequests ==
    {Request("delete_file", rel, "", FALSE) : rel \in RaceRels}
    \cup {Request("rename_file", rel, new_name, FALSE) :
             rel \in RaceRels, new_name \in NameArgs}
    \cup {Request("move_file", rel, to, create_dir) :
             rel \in RaceRels, to \in RaceDirArgs, create_dir \in BOOLEAN}

\* two requests arrive that address the same file
RaceInit ==
    /\ fs = InitialTree
    /\ pre = InitialTree
    /\ last = NoCall
    /\ listing = <<>>
    /\ calls = 0
    /\ walker = Idle
    /\ req \in {q \in [1..2 -> RaceRequests] :
                  canonicalize(InitialTree, join(PathFrom(Root), q[1].a1)).path
                  = canonicalize(InitialTree, join(PathFrom(Root), q[2].a1)).path}

\* request i resolves and checks its source
RaceCheck(i) ==
    /\ req[i].pc = "check"
    /\ \E c \in {checks_of(fs, req[i])} :
           req' = [req EXCEPT ![i] =
                      IF ~c.ok THEN Return(req[i], FALSE, c.err, c.errno)
                      ELSE [req[i] EXCEPT
                               !.pc = IF req[i].op = "move_file" THEN "dest" ELSE "act",
                               !.src = c.src, !.dst = c.dst,
                               !.root_canon = c.root_canon]]
    /\ UNCHANGED <<fs, pre, last, listing, calls, walker>>

\* move_file request i validates its destination directory, or creates it
RaceDest(i) ==
    /\ req[i].pc = "dest"
    /\ \E dc \in {dest_canon_of(fs, PathFrom(Root),
                                 dest_dir_of(PathFrom(Root), req[i].root_canon, req[i].a2),
                                 req[i].flag)} :
           /\ fs' = dc.fs
           /\ \E r \in {[req[i] EXCEPT !.changed = @ \cup Diff(fs, dc.fs)]} :
                  req' = [req EXCEPT ![i] =
                             IF ~dc.ok THEN Return(r, FALSE, dc.err, dc.errno)
                             ELSE IF ~file_name(r.src).some
                                  THEN Return(r, FALSE, "Source file has no name", "")
                             ELSE [r EXCEPT !.pc = "act",
                                            !.dst = Append(dc.path, file_name(r.src).name)]]
    /\ UNCHANGED <<pre, last, listing, calls, walker>>

\* request i renames or removes the file it resolved
RaceAct(i) ==
    /\ req[i].pc = "act"
    /\ \E m \in {mutate(fs, req[i].op, req[i].src, req[i].dst)} :
           /\ fs' = m.fs
           /\ \E r \in {[req[i] EXCEPT !.changed = @ \cup Diff(fs, m.fs)]} :
                  req' = [req EXCEPT ![i] =
                             IF ~m.ok THEN Return(r, FALSE, FailedMessage(r.op), m.errno)
                             ELSE [Return(r, TRUE, "", "") EXCEPT
                                      !.at = IF r.op = "delete_file" THEN <<>>
                                             ELSE Append(canonicalize(fs, Front(r.dst)).path,
                                                         Last(r.dst))]]
    /\ UNCHANGED <<pre, last, listing, calls, walker>>

RaceNext == \E i \in 1..2 : RaceCheck(i) \/ RaceDest(i) \/ RaceAct(i)

SpecRace == RaceInit /\ [][RaceNext]_vars

(* ------------------------------ properties ----------------------------- *)

RootPath == PathFrom(Root)

\* the canonical root: the resolved location of the root the requests name
RootCanon == canonicalize(InitialTree, RootPath).path

\* directory a is p or one of the directories above p
RECURSIVE IsAncestorOrSelf(_, _)
IsAncestorOrSelf(a, p) ==
    \/ a = p
    \/ p # <<>> /\ IsAncestorOrSelf(a, Front(p))

InsideRoot(p) == IsAncestorOrSelf(RootCanon, p)

\* the entries of tree f that lie outside the canonical root
OutsideOf(f) == [q \in {q \in DOMAIN f : ~InsideRoot(q)} |-> f[q]]

\* the error messages by the kind the interface names
Escape == "Path escapes selected root"
InvalidPath == "Failed to canonicalize path"
DestinationMissing == "Destination directory does not exist"
NotAFile(op) ==
    CASE op = "rename_file" -> "Target is not a file"
      [] op = "delete_file" -> "Only files can be deleted with this action"
      [] op = "move_file" -> "Source is not a file"
      [] OTHER -> "none"

\* the commands that act on the file a relative path addresses
FileOps == {"rename_file", "delete_file", "move_file"}

\* the string has a ".." segment
HasTraversal(s) == \E i \in 1..Len(Components(s)) : Components(s)[i] = ".."

\* where the walk of rel from the root ends, or stops, in tree f
EndOf(f, rel) == canonicalize(f, join(RootPath, rel))

\* rel, walked from the root, ends or stops outside the canonical root
LeadsOutside(f, rel) == ~InsideRoot(EndOf(f, rel).path)

\* rel addresses an entry that is itself a symbolic link (lstat)
NamesSymlink(f, rel) ==
    LET p == join(RootPath, rel)
        par == canonicalize(f, Front(p))
    IN /\ p # <<>> /\ Last(p) # ".."
       /\ par.ok
       /\ Append(par.path, Last(p)) \in DOMAIN f
       /\ f[Append(par.path, Last(p))].kind = "link"

(* C1: after any sequence of rename_file, delete_file, move_file and
   create_folder calls, no entry outside the canonical root has been
   created, removed, renamed or has received a moved file: the part of the
   tree outside the root is the one the calls started from. *)
C1_NoMutationOutsideRoot == OutsideOf(fs) = OutsideOf(InitialTree)

\* the roots and candidates canonical_within is tried on: every entry of
\* the tree, the paths the requests address, a path through the link that
\* leads out of the root and one through the link to the root
C2Roots == {<<"root">>, <<"root", "up">>, <<"root", "a">>, <<"root-evil">>, <<"zz">>}
C2Candidates(f) ==
    DOMAIN f \cup {join(RootPath, s) : s \in RelArgs}
             \cup {<<"root", "lo", "p">>, <<"root", "up", "a">>}

(* C2: canonical_within(R, C) succeeds exactly when R and C both
   canonicalize and the canonical C is the canonical R or lies below it,
   component by component; it then returns the canonical C. Stated of every
   file tree the requests produce: of the initial one and of each one a
   request has just changed. *)
C2_CanonicalWithinIffDescendant ==
    (calls = 0 \/ fs # pre) =>
        \A R \in C2Roots : \A r \in {canonicalize(fs, R)} :
            \A C \in C2Candidates(fs) : \A c \in {canonicalize(fs, C)} :
                \A got \in {canonical_within(fs, R, C)} :
                    /\ got.ok <=> (r.ok /\ c.ok /\ IsAncestorOrSelf(r.path, c.path))
                    /\ got.ok => got.path = c.path

\* a move to a link that leads out of the root was refused as an escape,
\* and the sibling whose name extends the root's is refused as well
C2_Witness ==
    /\ last.op = "move_file" /\ last.a2 = "lo" /\ last.err = Escape
    /\ fs[<<"root", "lo">>].kind = "link"
    /\ canonicalize(fs, <<"root-evil">>).ok
    /\ ~canonical_within(fs, RootPath, <<"root-evil">>).ok
    /\ canonical_within(fs, RootPath, <<"root", "a">>).ok

\* the destination directory the last move_file derived
LastDestDir == dest_dir_of(RootPath, RootCanon, last.a2)

(* C3: when move_file is called with create_dir = true and a destination
   directory that does not exist, every directory it creates lies inside
   the canonical root, and a file it moves arrives inside the canonical
   root. *)
C3_MoveCreatesInsideRoot ==
    (last.op = "move_file" /\ last.flag /\ ~exists(pre, LastDestDir)) =>
        \A q \in DOMAIN fs :
            (q \notin DOMAIN pre \/ pre[q] # fs[q]) => InsideRoot(q)

(* C4, as claimed: rename_file, delete_file and move_file on a relative path
   with traversal segments that lead outside the root fail with the Escape
   error and leave the file tree unchanged, whether or not the path exists. *)
C4_TraversalFailsWithEscape ==
    (last.op \in FileOps /\ HasTraversal(last.a1) /\ LeadsOutside(pre, last.a1)) =>
        (last.err = Escape /\ fs = pre)

(* C4, amended: such a call fails and leaves the file tree unchanged; the
   error is Escape when the traversed path exists and "Failed to
   canonicalize path" when it does not. *)
C4_TraversalFailsUnchanged ==
    (last.op \in FileOps /\ HasTraversal(last.a1) /\ LeadsOutside(pre, last.a1)) =>
        /\ ~last.ok
        /\ fs = pre
        /\ last.err = IF EndOf(pre, last.a1).ok THEN Escape ELSE InvalidPath

\* a delete of an existing file outside the root, addressed through "..",
\* was refused as an escape and the file is still there
C4_Witness ==
    /\ last.op = "delete_file" /\ last.a1 = "../root-evil/p"
    /\ last.err = Escape
    /\ <<"root-evil", "p">> \in DOMAIN fs

\* rel addresses, in tree f, a regular file inside the canonical root
SourceIsFile(f, rel) ==
    /\ EndOf(f, rel).ok
    /\ InsideRoot(EndOf(f, rel).path)
    /\ f[EndOf(f, rel).path].kind = "file"

(* C5: move_file of a regular file of the root to a destination directory
   that does not exist, with create_dir = false, returns the
   DestinationMissing error and changes nothing: no directory is created
   and the source file stays at its path. *)
C5_MissingDestinationRefused ==
    (/\ last.op = "move_file" /\ ~last.flag
     /\ SourceIsFile(pre, last.a1)
     /\ ~exists(pre, LastDestDir)) =>
        (last.err = DestinationMissing /\ fs = pre)

C5_Witness ==
    /\ last.op = "move_file" /\ ~last.flag
    /\ last.a1 = "a/f" /\ last.a2 = "n/m"
    /\ last.err = DestinationMissing
    /\ <<"root", "n">> \notin DOMAIN fs
    /\ fs[<<"root", "a", "f">>].kind = "file"

\* the spellings of "the root itself" as to_relative_dir
RootAliases == {"", ".", "/"}

(* C6: from the same file tree and source, move_file with to_relative_dir
   "", "." and "/" gives the same result and the same final tree; when the
   move succeeds the file is a direct child of the root under the file name
   it had, and no longer at its old path. *)
C6_RootAliasesAgree ==
    (last.op = "move_file" /\ last.a2 \in RootAliases) =>
        /\ \A t \in RootAliases :
              \A r \in {move_file(pre, Root, last.a1, t, last.flag)} :
                  r.fs = fs /\ r.ok = last.ok /\ r.err = last.err
        /\ last.ok =>
              \A src \in {EndOf(pre, last.a1).path} :
                  /\ Append(RootCanon, Last(src)) \in DOMAIN fs
                  /\ fs[Append(RootCanon, Last(src))] = pre[src]
                  /\ src # Append(RootCanon, Last(src)) => src \notin DOMAIN fs

C6_Witness ==
    /\ last.op = "move_file" /\ last.a1 = "a/f" /\ last.a2 = "/" /\ last.ok
    /\ fs[<<"root", "f">>] = File(1, 10)
    /\ <<"root", "a", "f">> \notin DOMAIN fs

\* the entry list_files owes to the regular file at resolved path q
EntryOf(f, q) ==
    [path |-> display(q), relative_path |-> JoinText(SubSeq(q, Len(RootCanon) + 1, Len(q))),
     size |-> f[q].size]

\* the regular files in the subtree of the canonical root
RegularFiles(f) == {q \in DOMAIN f : f[q].kind = "file" /\ InsideRoot(q)}

(* C7: list_files returns exactly one entry for each regular file in the
   subtree of the canonical root, with its path relative to the root and
   its size, sorted ascending by relative path. *)
C7_ListingExactAndSorted ==
    (last.op = "list_files" /\ last.ok) =>
        /\ {listing[i] : i \in 1..Len(listing)} = {EntryOf(fs, q) : q \in RegularFiles(fs)}
        /\ Len(listing) = Cardinality(RegularFiles(fs))
        /\ \A i \in 1..Len(listing) - 1 :
              StrLess(listing[i].relative_path, listing[i + 1].relative_path)

(* C8: list_files does not follow symlinked directories: every entry it
   returns is a file whose real location is inside the canonical root. *)
C8_ListingInsideRoot ==
    (last.op = "list_files" /\ last.ok) =>
        \A i \in 1..Len(listing) :
            \A c \in {canonicalize(fs, PathFrom(listing[i].path))} :
                c.ok /\ InsideRoot(c.path)

(* C9: rename_file, delete_file and move_file on a relative path that
   resolves to a directory inside the root fail with the NotAFile error and
   leave the whole file tree, the directory and everything beneath it
   included, unchanged. *)
C9_DirectoryIsNotAFile ==
    (/\ last.op \in FileOps
     /\ EndOf(pre, last.a1).ok
     /\ InsideRoot(EndOf(pre, last.a1).path)
     /\ pre[EndOf(pre, last.a1).path].kind = "dir") =>
        (~last.ok /\ last.err = NotAFile(last.op) /\ fs = pre)

C9_Witness ==
    /\ last.op = "rename_file" /\ last.a1 = "a"
    /\ last.err = "Target is not a file"
    /\ fs[<<"root", "a">>].kind = "dir"
    /\ fs[<<"root", "a", "f">>].kind = "file"

(* C10: rename_file, delete_file and move_file on a relative path that names
   a symbolic link fail with the NotAFile error and change neither the link
   nor its target. *)
C10_SymlinkIsNotAFile ==
    (last.op \in FileOps /\ NamesSymlink(pre, last.a1)) =>
        (~last.ok /\ last.err = NotAFile(last.op) /\ fs = pre)

(* C11: create_folder is idempotent: after a create_folder call that
   succeeded, the same call made again succeeds too and leaves the file
   tree exactly as the first call left it. *)
C11_CreateFolderIdempotent ==
    (last.op = "create_folder" /\ last.ok) =>
        \A again \in {create_folder(fs, Root, last.a1)} :
            again.ok /\ again.fs = fs

\* create_folder("n") made /root/n, and the same call, repeated, succeeded
\* on the tree that has it and changed nothing
C11_Witness ==
    /\ calls = 2
    /\ last.op = "create_folder" /\ last.a1 = "n" /\ last.ok
    /\ <<"root", "n">> \notin DOMAIN InitialTree
    /\ <<"root", "n">> \in DOMAIN pre
    /\ pre[<<"root", "n">>] = Dir
    /\ fs = pre

\* the longest leading part of path p that exists in tree f
RECURSIVE NearestExisting(_, _)
NearestExisting(f, p) ==
    IF p = <<>> \/ exists(f, p) THEN p ELSE NearestExisting(f, Front(p))

\* the directories create_folder(dir) is to leave: the target and every
\* directory between the root and the target
ChainOf(dir) ==
    {SubSeq(join(RootPath, dir), 1, k) :
        k \in (Len(RootPath) + 1)..Len(join(RootPath, dir))}

(* C12: create_folder creates the full directory chain: for a relative_dir
   of several segments without traversal, of which the last two or more do
   not exist yet while the nearest existing ancestor lies inside the root,
   the call succeeds and afterwards every directory of the chain exists. *)
C12_CreatesFullChain ==
    (/\ last.op = "create_folder"
     /\ ~is_absolute(last.a1) /\ ~HasTraversal(last.a1)
     /\ Len(Components(last.a1)) >= 2
     /\ ~exists(pre, Front(join(RootPath, last.a1)))
     /\ InsideRoot(canonicalize(pre, NearestExisting(pre, join(RootPath, last.a1))).path)) =>
        /\ last.ok
        /\ \A q \in ChainOf(last.a1) : is_dir(fs, q)

\* the path the first argument of the last call addresses, as it is written
LastAddressed == join(RootPath, last.a1)

(* C13: a successful move_file never renames: afterwards the file is at
   (destination directory)/(file name of the source), no file remains at
   the source path, and the final name component is that of the path
   from_relative addresses. *)
C13_MoveNeverRenames ==
    (last.op = "move_file" /\ last.ok) =>
        \A dest \in {canonicalize(fs, LastDestDir)} :
            /\ dest.ok
            /\ Append(dest.path, Last(LastAddressed)) \in DOMAIN fs
            /\ fs[Append(dest.path, Last(LastAddressed))] = pre[EndOf(pre, last.a1).path]
            /\ ~exists(fs, LastAddressed)

(* C14: when move_file returns an error, no file has been moved or removed:
   every entry of the tree before the call, the source file among them, is
   still in its place and unchanged. The call can only have added
   directories, and only with create_dir = true; they stay on disk. *)
C14_FailedMoveKeepsFiles ==
    (last.op = "move_file" /\ ~last.ok) =>
        /\ \A q \in DOMAIN pre : q \in DOMAIN fs /\ fs[q] = pre[q]
        /\ \A q \in DOMAIN fs \ DOMAIN pre : fs[q] = Dir /\ last.flag

\* the move of /root/a/f to n/../b/m with create_dir failed when
\* create_dir_all came to the file /root/b: the directory /root/n it had
\* made by then is still there, and the source file is in its place
C14_Witness ==
    /\ last.op = "move_file" /\ last.a1 = "a/f" /\ last.a2 = "n/../b/m"
    /\ last.flag /\ last.err = "Failed to create dir"
    /\ <<"root", "n">> \in DOMAIN fs /\ <<"root", "n">> \notin DOMAIN pre
    /\ <<"root", "a", "f">> \in DOMAIN pre
    /\ <<"root", "a", "f">> \in DOMAIN fs
    /\ fs[<<"root", "a", "f">>] = pre[<<"root", "a", "f">>]

(* C15: list_files terminates on every finite file tree, trees in which a
   symbolic link points to a directory above it included: every call
   followed step by step comes to return its listing or an error. *)
C15_ListFilesTerminates == <>(walker.pc \in {"done", "failed"})

\* list_files returned on a tree whose link /root/up points to the root:
\* it has followed the link, as the entry up/b of its listing shows
C15_Witness ==
    /\ walker.pc = "done" /\ last.ok
    /\ <<"root", "up">> \in DOMAIN fs
    /\ \E i \in 1..Len(listing) : listing[i].relative_path = "up/b"

(* C16: for every new_name, a successful rename_file changes only the final
   name of the file: afterwards the file is a direct child of the directory
   that contained it before the call, and that directory is inside the
   canonical root. *)
C16_RenameKeepsDirectory ==
    (last.op = "rename_file" /\ last.ok) =>
        \A src \in {EndOf(pre, last.a1).path} :
            /\ InsideRoot(Front(src))
            /\ \E q \in DOMAIN fs :
                   q # <<>> /\ Front(q) = Front(src) /\ fs[q] = pre[src]

MoveOps == {"rename_file", "move_file"}

\* the regular files of tree f other than the one at path src
OtherFiles(f, src) == {q \in DOMAIN f : q # src /\ f[q].kind = "file"}

(* C17, as claimed: a successful rename_file or move_file destroys no other
   file: every regular file under the root other than the source is
   afterwards still at its path with the same content (so their number is
   unchanged). *)
C17_NoOtherFileDestroyed ==
    (last.op \in MoveOps /\ last.ok) =>
        \A q \in OtherFiles(pre, EndOf(pre, last.a1).path) :
            InsideRoot(q) => (q \in DOMAIN fs /\ fs[q] = pre[q])

\* the entry that new_name names in the directory of the file rel addresses
Renamed(f, rel, new_name) == Append(Front(EndOf(f, rel).path), new_name)

(* C17, amended: a successful rename_file or move_file leaves every regular
   file other than the source at its path with the same content, except the
   file at the destination path, which the source file replaces; and
   rename_file to the name of another regular file of the same directory
   does succeed and replaces that file, so that the regular files are one
   fewer. *)
C17_OnlyDestinationReplaced ==
    /\ (last.op \in MoveOps /\ last.ok) =>
          \A src \in {EndOf(pre, last.a1).path} :
             /\ \A q \in OtherFiles(pre, src) :
                    q \in DOMAIN fs /\ (fs[q] = pre[q] \/ fs[q] = pre[src])
             /\ Cardinality({q \in OtherFiles(pre, src) : fs[q] # pre[q]}) <= 1
             /\ \E q \in DOMAIN fs : fs[q] = pre[src]
    /\ (/\ last.op = "rename_file"
        /\ SourceIsFile(pre, last.a1)
        /\ Components(last.a2) = <<last.a2>>
        /\ Renamed(pre, last.a1, last.a2) \in OtherFiles(pre, EndOf(pre, last.a1).path)) =>
          /\ last.ok
          /\ fs[Renamed(pre, last.a1, last.a2)] = pre[EndOf(pre, last.a1).path]
          /\ Cardinality(OtherFiles(fs, <<>>)) = Cardinality(OtherFiles(pre, <<>>)) - 1

\* rename_file("a/f", "b") succeeded on a tree that had the regular file
\* /root/a/b: the path now holds the content of /root/a/f, and the file
\* that was there is nowhere in the tree
C17_Witness ==
    /\ last.op = "rename_file" /\ last.a1 = "a/f" /\ last.a2 = "b" /\ last.ok
    /\ <<"root", "a", "b">> \in DOMAIN pre
    /\ pre[<<"root", "a", "b">>].kind = "file"
    /\ fs[<<"root", "a", "b">>] = pre[<<"root", "a", "f">>]
    /\ \A q \in DOMAIN fs : fs[q] # pre[<<"root", "a", "b">>]

BothReturned == req[1].pc = "done" /\ req[2].pc = "done"

(* C18, as claimed: of two requests on the same existing file whose check
   and mutation steps interleave in any order, at most one returns success;
   the other returns an error and has acted on no file. *)
C18_AtMostOneSucceeds ==
    BothReturned =>
        /\ ~(req[1].ok /\ req[2].ok)
        /\ \A i \in 1..2 :
               ~req[i].ok => \A q \in req[i].changed : q \notin DOMAIN InitialTree

(* C18, amended: a request that returns an error has changed no file: all
   it can have done is create destination directories, which stay. No
   request changes an entry other than the path it resolved for the file,
   the destination of its rename and directories it created. Both requests
   succeed only when one of them is a rename_file or move_file that put, or
   left, the file at the very path at which the other then acted on it. *)
C18_SuccessOnlyWhereTheFileIs ==
    /\ \A i \in 1..2 :
           (req[i].pc = "done" /\ ~req[i].ok) =>
               \A q \in req[i].changed :
                   q \notin DOMAIN InitialTree /\ q \in DOMAIN fs /\ fs[q] = Dir
    /\ \A i \in 1..2 :
           \A q \in req[i].changed :
               \/ q \in {req[i].src, req[i].at}
               \/ q \notin DOMAIN InitialTree /\ q \in DOMAIN fs /\ fs[q] = Dir
    /\ (BothReturned /\ req[1].ok /\ req[2].ok) =>
           \E i, j \in 1..2 :
               i # j /\ req[i].op \in MoveOps /\ req[i].at = req[j].src

\* delete_file and rename_file both found /root/a/f in their checks; the
\* delete removed it, and the rename, at its fs::rename, no longer found it
\* and returned an error without having changed anything
C18_Witness ==
    /\ BothReturned
    /\ req[1].op = "delete_file" /\ req[1].a1 = "a/f" /\ req[1].ok
    /\ req[2].op = "rename_file" /\ req[2].a1 = "a/f"
    /\ req[2].err = "Rename failed" /\ req[2].errno = "ENOENT"
    /\ req[2].changed = {}
    /\ <<"root", "a", "f">> \notin DOMAIN fs

====
